---- MODULE Spec2Model ----
(***************************************************************************)
(* State-machine model of the ImageUploader widget controller              *)
(* (src/src/imageUploader.js): the tracked file list, intake validation,   *)
(* removal, clear, and the sequential upload loop of startUpload, whose    *)
(* awaits are the points where other handlers interleave.                  *)
(*                                                                         *)
(* The DOM layer is not modelled.  The instance is modelled up to          *)
(* destroy(): after teardown it must not be reused.                        *)
(***************************************************************************)
EXTENDS Integers, Sequences, FiniteSets, TLC

(* ---------------------------- configuration --------------------------- *)

\* options.maxFiles and options.maxFileSize as configured for the model
\* (sizes are in abstract units; only the comparison with the limit matters)
maxFiles == 2
maxFileSize == 2
acceptedTypes == {"image/jpeg", "image/png"}

\* longest batch handed to addFiles
MaxBatch == 2
\* number of tracked entries ever created in one behaviour
MaxIds == 3
\* number of startUpload activations that may be suspended at once
MaxRuns == 2

(* ------------------------------ raw files ----------------------------- *)

File(name, type, size) == [name |-> name, type |-> type, size |-> size]

\* raw file handles the host environment can deliver: one at the size limit,
\* one below it, one of a type that is not accepted, one too large, one both
Handles ==
    { File("a", "image/png", maxFileSize),
      File("b", "image/jpeg", 1),
      File("c", "text/plain", 1),
      File("d", "image/png", maxFileSize + 1),
      File("e", "text/plain", maxFileSize + 1) }

\* the handles that reach the tracked list and so matter to an upload run:
\* the accepted ones (rejection is exercised by IntakeSpec over all Handles)
RunHandles == { f \in Handles : f.name \in {"a", "b"} }

\* the values an upload function passes to its progress callback: the code
\* takes whatever it is given, so one value is a percentage and one is not
Percents == {50, 150}

BatchesOf(H) == UNION { [1..n -> H] : n \in 0..MaxBatch }

\* the batches a selection or drop event can deliver
Batches == BatchesOf(Handles)
RunBatches == BatchesOf(RunHandles)

(* ------------------------------- state -------------------------------- *)

VARIABLES
    files,        \* this.files: the tracked list, as references (ids) into objs
    objs,         \* the fileObj objects still referenced, by id (an entry in
                  \* flight outlives its removal from the list)
    nextId,       \* next fresh identifier
    uploading,    \* this.uploading
    runs,         \* suspended activations of startUpload
    hasOnUpload,  \* options.onUpload is configured
    destroyed,    \* destroy() has emptied the container element
    ev,           \* observation: the handler step taken last and its input
    log           \* observation: hook calls and error reports made by that step

vars == <<files, objs, nextId, uploading, runs, hasOnUpload, destroyed, ev, log>>

\* one hook call (or error report) made by a handler
Call(hook, fs, msg, id, raises) ==
    [hook |-> hook, files |-> fs, msg |-> msg, id |-> id, raises |-> raises]

Event(op, batch, id, calls, end) ==
    [op |-> op, batch |-> batch, id |-> id, calls |-> calls, end |-> end]

(* ------------------------------ helpers ------------------------------- *)

RECURSIVE Flatten(_)
Flatten(ss) == IF ss = <<>> THEN <<>> ELSE Head(ss) \o Flatten(Tail(ss))

RemoveAt(s, k) == SubSeq(s, 1, k - 1) \o SubSeq(s, k + 1, Len(s))

\* Array.prototype.splice(start) with one argument: drops everything from
\* start on; a negative start counts from the end
Splice(arr, start) ==
    LET from == IF start < 0
                THEN (IF Len(arr) + start < 0 THEN 0 ELSE Len(arr) + start)
                ELSE (IF start > Len(arr) THEN Len(arr) ELSE start)
    IN  SubSeq(arr, 1, from)

\* showError(message): onError if configured, else console.error
showError(msg, fs, raises) == Call("showError", fs, msg, 0, raises)

\* getFiles()
getFilesOf(fs, os) == [k \in 1..Len(fs) |-> os[fs[k]].file]
getFiles == getFilesOf(files, objs)

\* getUploadedFiles()
getUploadedFiles ==
    LET up == SelectSeq(files, LAMBDA id : objs[id].uploaded)
    IN  [k \in 1..Len(up) |-> objs[up[k]].file]

\* the fileObj objects some reference still reaches: the tracked ones and
\* the ones held by a suspended uploadFile; the others are garbage
Live(os, fs, rs) ==
    [id \in {fs[k] : k \in 1..Len(fs)} \cup {rs[k].cur : k \in 1..Len(rs)}
        |-> os[id]]

(* ------------------------------- intake ------------------------------- *)

\* mutation: the size test rejects a file exactly at the limit
validateFileAtLimit(file) ==
    IF file.type \notin acceptedTypes
    THEN [ok |-> FALSE, errs |-> <<showError("type", <<file>>, FALSE)>>]
    ELSE IF file.size >= maxFileSize
         THEN [ok |-> FALSE, errs |-> <<showError("size", <<file>>, FALSE)>>]
         ELSE [ok |-> TRUE, errs |-> <<>>]

\* validateFile(file): the verdict and the error it reports
validateFile(file) ==
    IF file.type \notin acceptedTypes
    THEN [ok |-> FALSE, errs |-> <<showError("type", <<file>>, FALSE)>>]
    ELSE IF file.size > maxFileSize
         THEN [ok |-> FALSE, errs |-> <<showError("size", <<file>>, FALSE)>>]
         ELSE [ok |-> TRUE, errs |-> <<>>]

\* mutation: the capacity test off by one
OverCapacityOffByOne(tracked, valid) == tracked + valid > maxFiles + 1

\* the capacity test of addFiles
OverCapacity(tracked, valid) == tracked + valid > maxFiles

\* mutation: the excess is dropped from the head of the validated batch
TruncateHead(validFiles, tracked) ==
    SubSeq(validFiles, Len(validFiles) - (maxFiles - tracked) + 1, Len(validFiles))

\* validFiles.splice(maxFiles - this.files.length)
Truncate(validFiles, tracked) == Splice(validFiles, maxFiles - tracked)

\* mutation: unshift instead of push
UnshiftAll(fs, ids) == ids \o fs

\* this.files.push(fileObj), once per accepted file
PushAll(fs, ids) == fs \o ids

\* the fileObj literal of addFiles
\* classes: the status classes on the entry's preview element, created with
\* the entry by createPreview
NewFileObj(file) ==
    [file |-> file, uploaded |-> FALSE, progress |-> 0, classes |-> {}]

\* newFiles.filter((file) => this.validateFile(file)): the files that pass,
\* in batch order, and the errors reported on the way
FilterValid(newFiles) ==
    LET verdicts == [k \in 1..Len(newFiles) |-> validateFile(newFiles[k])]
        validPos == SelectSeq([k \in 1..Len(newFiles) |-> k],
                              LAMBDA k : verdicts[k].ok)
    IN  [validFiles |-> [k \in 1..Len(validPos) |-> newFiles[validPos[k]]],
         errs |-> Flatten([k \in 1..Len(newFiles) |-> verdicts[k].errs])]

\* mutation: the files-added hook is handed the whole batch
AcceptHookWholeBatch(newFiles, tracked) ==
    LET f    == FilterValid(newFiles)
        over == OverCapacity(tracked, Len(f.validFiles))
        kept == IF over THEN Truncate(f.validFiles, tracked) ELSE f.validFiles
    IN  [kept |-> kept,
         log |-> f.errs
                 \o (IF over THEN <<showError("capacity", <<>>, FALSE)>> ELSE <<>>)
                 \o (IF Len(newFiles) > 0
                     THEN <<Call("onFilesAdded", newFiles, "", 0, FALSE)>> ELSE <<>>)]

\* addFiles up to the forEach: what is accepted and what is reported, for a
\* list of the given length
Accept(newFiles, tracked) ==
    LET f    == FilterValid(newFiles)
        over == OverCapacity(tracked, Len(f.validFiles))
        kept == IF over THEN Truncate(f.validFiles, tracked) ELSE f.validFiles
    IN  [kept |-> kept,
         log |-> f.errs
                 \o (IF over THEN <<showError("capacity", <<>>, FALSE)>> ELSE <<>>)
                 \o (IF Len(kept) > 0
                     THEN <<Call("onFilesAdded", kept, "", 0, FALSE)>> ELSE <<>>)]

\* the objects after the forEach: one new fileObj per accepted file
WithNew(os, first, kept) ==
    [id \in DOMAIN os \cup {first + k - 1 : k \in 1..Len(kept)} |->
        IF id < first THEN os[id] ELSE NewFileObj(kept[id - first + 1])]

addFiles(newFiles) ==
    LET acc == Accept(newFiles, Len(files))
    IN  /\ ~destroyed
        /\ nextId + Len(acc.kept) - 1 <= MaxIds
        /\ files' = PushAll(files, [k \in 1..Len(acc.kept) |-> nextId + k - 1])
        /\ objs' = Live(WithNew(objs, nextId, acc.kept), files', runs)
        /\ nextId' = nextId + Len(acc.kept)
        /\ log' = acc.log
        /\ ev' = Event("addFiles", newFiles, 0, <<>>, "no")
        /\ UNCHANGED <<uploading, runs, hasOnUpload, destroyed>>

\* handleDrop / handleFileSelect / a direct call
AddFiles == \E newFiles \in RunBatches : addFiles(newFiles)
AddAnyFiles == \E newFiles \in Batches : addFiles(newFiles)

(* ------------------------- removal and clear -------------------------- *)

\* observation: every run in progress notes that the list lost entries
Disturb(rs, what) ==
    [r \in 1..Len(rs) |-> [rs[r] EXCEPT !.disturbed = @ \cup {what}]]

\* this.files.findIndex(f => f.id === fileId), 1-based, 0 when absent
findIndex(fs, fileId) ==
    IF \E k \in 1..Len(fs) : fs[k] = fileId
    THEN CHOOSE k \in 1..Len(fs) :
             fs[k] = fileId /\ \A m \in 1..(k - 1) : fs[m] # fileId
    ELSE 0

\* mutation: splice(index) without a delete count drops the tail as well
removeFileAndTail(fileId) ==
    LET index == findIndex(files, fileId)
    IN  /\ ~destroyed
        /\ IF index > 0
           THEN /\ files' = SubSeq(files, 1, index - 1)
                /\ log' = <<Call("onFileRemoved", <<objs[files[index]].file>>,
                                 "", fileId, FALSE)>>
           ELSE /\ files' = files
                /\ log' = <<>>
        /\ runs' = (IF index > 0 THEN Disturb(runs, "removeFile") ELSE runs)
        /\ objs' = Live(objs, files', runs)
        /\ ev' = Event("removeFile", <<>>, fileId, <<>>, "no")
        /\ UNCHANGED <<nextId, uploading, hasOnUpload, destroyed>>

\* removeFile(fileId)
removeFile(fileId) ==
    LET index == findIndex(files, fileId)
    IN  /\ ~destroyed
        /\ IF index > 0
           THEN /\ files' = RemoveAt(files, index)
                /\ log' = <<Call("onFileRemoved", <<objs[files[index]].file>>,
                                 "", fileId, FALSE)>>
           ELSE /\ files' = files
                /\ log' = <<>>
        /\ runs' = (IF index > 0 THEN Disturb(runs, "removeFile") ELSE runs)
        /\ objs' = Live(objs, files', runs)
        /\ ev' = Event("removeFile", <<>>, fileId, <<>>, "no")
        /\ UNCHANGED <<nextId, uploading, hasOnUpload, destroyed>>

RemoveFile == \E fileId \in 1..MaxIds : removeFile(fileId)

\* mutation: clear refuses to act while a run is in progress
clearIdleOnly ==
    /\ ~destroyed
    /\ files' = (IF uploading THEN files ELSE <<>>)
    /\ log' = <<>>
    /\ runs' = (IF files' # files THEN Disturb(runs, "clear") ELSE runs)
    /\ objs' = Live(objs, files', runs)
    /\ ev' = Event("clear", <<>>, 0, <<>>, "no")
    /\ UNCHANGED <<nextId, uploading, hasOnUpload, destroyed>>

\* mutation: clear spares the entry whose upload is in flight
clearKeepInFlight ==
    /\ ~destroyed
    /\ files' = SelectSeq(files, LAMBDA id : \E r \in 1..Len(runs) : runs[r].cur = id)
    /\ log' = <<>>
    /\ runs' = (IF files' # files THEN Disturb(runs, "clear") ELSE runs)
    /\ objs' = Live(objs, files', runs)
    /\ ev' = Event("clear", <<>>, 0, <<>>, "no")
    /\ UNCHANGED <<nextId, uploading, hasOnUpload, destroyed>>

\* clear()
clear ==
    /\ ~destroyed
    /\ files' = <<>>
    /\ log' = <<>>
    /\ runs' = (IF files' # files THEN Disturb(runs, "clear") ELSE runs)
    /\ objs' = Live(objs, files', runs)
    /\ ev' = Event("clear", <<>>, 0, <<>>, "no")
    /\ UNCHANGED <<nextId, uploading, hasOnUpload, destroyed>>

(* --------------------------- upload loop ------------------------------ *)

\* mutation: the re-entrancy guard is missing
StartBlockedNoGuard == ~hasOnUpload

\* mutation: the call also returns early when no entry is left to upload
StartBlockedNothingPending ==
    \/ ~hasOnUpload
    \/ uploading
    \/ \A k \in 1..Len(files) : objs[files[k]].uploaded

\* mutation: the test for a configured upload function is missing
StartBlockedNoHandlerTest == uploading

\* if (!this.options.onUpload || this.uploading) return;
StartBlocked == ~hasOnUpload \/ uploading

\* mutation: uploaded entries are not skipped
ShouldSkipNever(fileObj) == FALSE

\* if (fileObj.uploaded) continue;
ShouldSkip(fileObj) == fileObj.uploaded

\* mutation: the loop body reads this.files[0] instead of this.files[i]
NextPendingHead(fs, os, i) == IF i < Len(fs) THEN 0 ELSE Len(fs)

\* the for loop from index i (0-based, as in the code) up to its next await:
\* the index of the next entry handed to uploadFile, or Len(fs) at loop exit
RECURSIVE NextPending(_, _, _)
NextPending(fs, os, i) ==
    IF i < Len(fs)
    THEN IF ShouldSkip(os[fs[i + 1]]) THEN NextPending(fs, os, i + 1) ELSE i
    ELSE Len(fs)

\* mutation: the loop bound is the list length read once when the run began
LoopFromSnapshot(i0, calls, first, disturbed, others, op) ==
    LET n == Len(SelectSeq(files, LAMBDA id : id < first))
        j == NextPending(SubSeq(files, 1, n), objs, i0)
    IN  IF j < n
        THEN /\ runs' = Append(others, [pc |-> "awaiting", i |-> j,
                                        cur |-> files[j + 1],
                                        calls |-> Append(calls, files[j + 1]),
                                        first |-> first,
                                        disturbed |-> disturbed,
                                        preview |-> ~destroyed])
             /\ uploading' = (IF i0 = 0 /\ op = "startUpload" THEN TRUE ELSE uploading)
             /\ log' = <<Call("onUpload", <<objs[files[j + 1]].file>>, "",
                              files[j + 1], FALSE)>>
             /\ ev' = Event(op, <<>>, files[j + 1], Append(calls, files[j + 1]), "no")
        ELSE \E raises \in BOOLEAN :
             /\ runs' = others
             /\ uploading' = FALSE
             /\ log' = <<Call("onUploadComplete", getFiles, "", 0, raises)>>
                       \o (IF raises
                           THEN <<showError("upload", <<>>, FALSE)>> ELSE <<>>)
             /\ ev' = Event(op, <<>>, 0, calls, "ok")

\* the loop of startUpload run from index i0 until it suspends in
\* uploadFile (await this.options.onUpload(...)) or falls through to
\* onUploadComplete and the finally block.  others: the other suspended
\* activations; calls: the entries this activation has passed to onUpload;
\* first: the identifier the next new entry had when the run began;
\* disturbed: the list mutations other than addFiles made during the run
\* (calls, first and disturbed are observations, the code does not keep them);
\* preview: uploadFile found the entry's preview element in the container.
LoopFrom(i0, calls, first, disturbed, others, op) ==
    LET j == NextPending(files, objs, i0)
    IN  IF j < Len(files)
        THEN /\ runs' = Append(others, [pc |-> "awaiting", i |-> j,
                                        cur |-> files[j + 1],
                                        calls |-> Append(calls, files[j + 1]),
                                        first |-> first,
                                        disturbed |-> disturbed,
                                        preview |-> ~destroyed])
             /\ uploading' = (IF i0 = 0 /\ op = "startUpload" THEN TRUE ELSE uploading)
             /\ log' = <<Call("onUpload", <<objs[files[j + 1]].file>>, "",
                              files[j + 1], FALSE)>>
             /\ ev' = Event(op, <<>>, files[j + 1], Append(calls, files[j + 1]), "no")
        ELSE \E raises \in BOOLEAN :
             /\ runs' = others
             /\ uploading' = FALSE
             /\ log' = <<Call("onUploadComplete", getFiles, "", 0, raises)>>
                       \o (IF raises
                           THEN <<showError("upload", <<>>, FALSE)>> ELSE <<>>)
             /\ ev' = Event(op, <<>>, 0, calls, "ok")

\* startUpload() up to its first await
startUpload ==
    /\ ~destroyed
    /\ IF StartBlocked
       THEN /\ log' = <<>>
            /\ ev' = Event("startUpload", <<>>, 0, <<>>, "blocked")
            /\ UNCHANGED <<uploading, runs>>
       ELSE /\ Len(runs) < MaxRuns
            /\ LoopFrom(0, <<>>, nextId, {}, runs, "startUpload")
    /\ objs' = Live(objs, files, runs')
    /\ UNCHANGED <<files, nextId, hasOnUpload, destroyed>>

\* the promise returned by onUpload resolves: uploadFile marks the entry
uploadResolved(r) ==
    /\ runs[r].pc = "awaiting"
    /\ objs' = [objs EXCEPT ![runs[r].cur].uploaded = TRUE,
                            ![runs[r].cur].classes =
                                IF runs[r].preview THEN @ \cup {"uploaded"} ELSE @]
    /\ runs' = [runs EXCEPT ![r].pc = "resolved"]
    /\ log' = <<>>
    /\ ev' = Event("uploadFile.resolved", <<>>, runs[r].cur, runs[r].calls, "no")
    /\ UNCHANGED <<files, nextId, uploading, hasOnUpload, destroyed>>

\* the promise returned by onUpload rejects: uploadFile rethrows
uploadRejected(r) ==
    /\ runs[r].pc = "awaiting"
    /\ objs' = [objs EXCEPT ![runs[r].cur].classes =
                                IF runs[r].preview THEN @ \cup {"error"} ELSE @]
    /\ runs' = [runs EXCEPT ![r].pc = "rejected"]
    /\ log' = <<>>
    /\ ev' = Event("uploadFile.rejected", <<>>, runs[r].cur, runs[r].calls, "no")
    /\ UNCHANGED <<files, nextId, uploading, hasOnUpload, destroyed>>

\* the call of onUploadProgress made by progressCallback
ProgressCall(file, id, percent) ==
    [hook |-> "onUploadProgress", files |-> <<file>>, msg |-> "", id |-> id,
     raises |-> FALSE, percent |-> percent]

\* the upload function calls the progressCallback it was given
progressCallback(r, percent) ==
    /\ runs[r].pc = "awaiting"
    /\ objs' = [objs EXCEPT ![runs[r].cur].progress = percent]
    /\ log' = <<ProgressCall(objs[runs[r].cur].file, runs[r].cur, percent)>>
    /\ ev' = Event("progressCallback", <<>>, runs[r].cur, runs[r].calls, "no")
    /\ UNCHANGED <<files, nextId, uploading, runs, hasOnUpload, destroyed>>

\* startUpload resumes after await this.uploadFile(fileObj): i++ and on
resumeLoop(r) ==
    /\ runs[r].pc = "resolved"
    /\ LoopFrom(runs[r].i + 1, runs[r].calls, runs[r].first, runs[r].disturbed,
                RemoveAt(runs, r), "startUpload.resume")
    /\ objs' = Live(objs, files, runs')
    /\ UNCHANGED <<files, nextId, hasOnUpload, destroyed>>

\* mutation: the failure is swallowed inside the loop, which goes on
catchErrorContinue(r) ==
    /\ runs[r].pc = "rejected"
    /\ runs' = [runs EXCEPT ![r].pc = "resolved"]
    /\ log' = <<showError("upload", <<objs[runs[r].cur].file>>, FALSE)>>
    /\ ev' = Event("startUpload.catch", <<>>, runs[r].cur, runs[r].calls, "failed")
    /\ UNCHANGED <<files, objs, nextId, uploading, hasOnUpload, destroyed>>

\* mutation: no finally block, the flag is reset on success only
catchErrorNoFinally(r) ==
    /\ runs[r].pc = "rejected"
    /\ log' = <<showError("upload", <<objs[runs[r].cur].file>>, FALSE)>>
    /\ runs' = RemoveAt(runs, r)
    /\ ev' = Event("startUpload.catch", <<>>, runs[r].cur, runs[r].calls, "failed")
    /\ objs' = Live(objs, files, runs')
    /\ UNCHANGED <<files, nextId, uploading, hasOnUpload, destroyed>>

\* startUpload's catch and finally after uploadFile threw
catchError(r) ==
    /\ runs[r].pc = "rejected"
    /\ \E raises \in BOOLEAN :
           log' = <<showError("upload", <<objs[runs[r].cur].file>>, raises)>>
    /\ runs' = RemoveAt(runs, r)
    /\ uploading' = FALSE
    /\ ev' = Event("startUpload.catch", <<>>, runs[r].cur, runs[r].calls, "failed")
    /\ objs' = Live(objs, files, runs')
    /\ UNCHANGED <<files, nextId, hasOnUpload, destroyed>>

UploadResolved == \E r \in 1..Len(runs) : uploadResolved(r)
UploadRejected == \E r \in 1..Len(runs) : uploadRejected(r)
ResumeLoop == \E r \in 1..Len(runs) : resumeLoop(r)
CatchError == \E r \in 1..Len(runs) : catchError(r)
ProgressCallback ==
    \E r \in 1..Len(runs) : \E percent \in Percents : progressCallback(r, percent)

(* ------------------------------ teardown ------------------------------ *)

\* mutation: teardown also discards the tracked entries
destroyAndClear ==
    /\ ~destroyed
    /\ destroyed' = TRUE
    /\ files' = <<>>
    /\ objs' = Live(objs, files', runs)
    /\ log' = <<>>
    /\ ev' = Event("destroy", <<>>, 0, <<>>, "no")
    /\ UNCHANGED <<nextId, uploading, runs, hasOnUpload>>

\* destroy(): this.container.innerHTML = ''.  The instance is not used after
\* it (addFiles, removeFile, clear and startUpload all reach into the emptied
\* container), so those handlers are guarded by ~destroyed; a run suspended
\* in uploadFile goes on.
destroy ==
    /\ ~destroyed
    /\ destroyed' = TRUE
    /\ log' = <<>>
    /\ ev' = Event("destroy", <<>>, 0, <<>>, "no")
    /\ UNCHANGED <<files, objs, nextId, uploading, runs, hasOnUpload>>

(* --------------------------- specification ---------------------------- *)

Init ==
    /\ files = <<>>
    /\ objs = <<>>
    /\ nextId = 1
    /\ uploading = FALSE
    /\ runs = <<>>
    /\ hasOnUpload \in BOOLEAN
    /\ destroyed = FALSE
    /\ ev = Event("init", <<>>, 0, <<>>, "no")
    /\ log = <<>>

Next ==
    \/ AddFiles
    \/ RemoveFile
    \/ clear
    \/ startUpload
    \/ UploadResolved
    \/ UploadRejected
    \/ ResumeLoop
    \/ CatchError

Spec == Init /\ [][Next]_vars

\* the same with upload functions that report progress.  No handler reads
\* fileObj.progress, so the calls of the progress callback are left out of
\* Spec and every behaviour of Spec is one of ProgressSpec.
ProgressNext ==
    \/ Next
    \/ ProgressCallback

ProgressSpec == Init /\ [][ProgressNext]_vars

\* the same with a teardown at any moment
TeardownNext ==
    \/ ProgressNext
    \/ destroy

TeardownSpec == Init /\ [][TeardownNext]_vars

\* intake, removal and clear alone, over every batch of Batches
IntakeNext ==
    \/ AddAnyFiles
    \/ RemoveFile
    \/ clear

IntakeSpec == Init /\ [][IntakeNext]_vars

\* the event loop runs every continuation that is ready, and every upload
\* function that was invoked settles
UploadSettles == UploadResolved \/ UploadRejected

FairSpec ==
    /\ Spec
    /\ WF_vars(UploadSettles)
    /\ WF_vars(ResumeLoop)
    /\ WF_vars(CatchError)

(* ------------------------- observation helpers ------------------------ *)

HandleA == File("a", "image/png", maxFileSize)
HandleB == File("b", "image/jpeg", 1)
HandleE == File("e", "text/plain", maxFileSize + 1)

CallsOf(l, hook) == SelectSeq(l, LAMBDA c : c.hook = hook)
ErrorsOf(l, kinds) == SelectSeq(l, LAMBDA c : c.hook = "showError" /\ c.msg \in kinds)
Made(l, hook) == \E k \in 1..Len(l) : l[k].hook = hook

\* the raw handles of the entries from position from on
HandlesFrom(fs, os, from) == [k \in 1..(Len(fs) - from + 1) |-> os[fs[from + k - 1]].file]

Rejectable(f) == f.type \notin acceptedTypes \/ f.size > maxFileSize

Awaiting == { r \in 1..Len(runs) : runs[r].pc = "awaiting" }

RECURSIVE IsSubseq(_, _)
IsSubseq(a, b) ==
    IF a = <<>> THEN TRUE
    ELSE IF b = <<>> THEN FALSE
    ELSE IF Head(a) = Head(b) THEN IsSubseq(Tail(a), Tail(b))
    ELSE IsSubseq(a, Tail(b))

(* ------------------------------- claims ------------------------------- *)

\* C1: after any sequence of addFiles, removeFile, clear and startUpload
\* calls, interleaved with a running upload loop or not, the number of
\* tracked entries never exceeds options.maxFiles.
C1_TrackedWithinMax == Len(files) <= maxFiles

\* a batch was truncated to fill the list to the limit while a run was going on
C1_Witness ==
    /\ ev.op = "addFiles"
    /\ ErrorsOf(log, {"capacity"}) # <<>>
    /\ Made(log, "onFilesAdded")
    /\ Len(files) = maxFiles
    /\ Len(runs) > 0

\* C2: a file of a batch whose type is not accepted or whose size exceeds
\* maxFileSize is never appended and is reported exactly once, also when it
\* breaks both rules; a file of an accepted type exactly at the size limit
\* passes; so every tracked entry has an accepted type and a size within
\* the limit.
C2_RejectedOnceNeverTracked ==
    [][ev'.op = "addFiles" =>
        LET bad      == SelectSeq(ev'.batch, Rejectable)
            reported == ErrorsOf(log', {"type", "size"})
            appended == HandlesFrom(files', objs', Len(files) + 1)
            atLimit  == { k \in 1..Len(ev'.batch) :
                            /\ ev'.batch[k].type \in acceptedTypes
                            /\ ev'.batch[k].size = maxFileSize }
        IN  /\ Len(reported) = Len(bad)
            /\ \A k \in 1..Len(bad) : reported[k].files = <<bad[k]>>
            /\ \A k \in 1..Len(appended) : ~Rejectable(appended[k])
            /\ \A k \in atLimit :
                   Len(files) + Len(ev'.batch) <= maxFiles
                       => \E m \in 1..Len(appended) : appended[m] = ev'.batch[k]
            /\ \A k \in 1..Len(files') :
                   /\ objs'[files'[k]].file.type \in acceptedTypes
                   /\ objs'[files'[k]].file.size <= maxFileSize
    ]_vars

\* a batch of a file breaking both rules and a file at the limit: one report,
\* the file at the limit tracked
C2_Witness ==
    /\ ev.op = "addFiles"
    /\ ev.batch = <<HandleE, HandleA>>
    /\ Len(log) = 2
    /\ log[1].hook = "showError"
    /\ Len(files) > 0
    /\ objs[files[Len(files)]].file = HandleA

\* C3: at every moment at most one call of onUpload is unsettled, whatever
\* startUpload invocations interleave with a running loop.
C3_OneUploadInFlight == Cardinality(Awaiting) <= 1

\* startUpload was called while an upload was in flight, and did nothing
C3_Witness ==
    /\ ev.op = "startUpload"
    /\ ev.end = "blocked"
    /\ hasOnUpload
    /\ Cardinality(Awaiting) = 1

\* C4: in a run in which the upload function fails for an entry, the run
\* ends there: the upload function is invoked for no later entry, the
\* upload-complete hook does not fire, the entries the run uploaded before
\* the failure stay uploaded, and the failing entry and the entries after
\* it are left as they were, not uploaded by this run.
C4_FailureHaltsRun ==
    [][/\ ev'.op = "uploadFile.rejected" /\ runs' # runs
           => \A id \in DOMAIN objs' : objs'[id].uploaded = objs[id].uploaded
       /\ ev'.op = "startUpload.catch" /\ runs' # runs
           => LET calls == ev'.calls
                  idx   == findIndex(files', ev'.id)
              IN  /\ ~Made(log', "onUpload")
                  /\ ~Made(log', "onUploadComplete")
                  /\ Len(runs') = Len(runs) - 1
                  /\ \A r \in 1..Len(runs') : runs'[r].calls # calls
                  /\ \A id \in DOMAIN objs' : objs'[id].uploaded = objs[id].uploaded
                  /\ ev'.id \in DOMAIN objs' => ~objs'[ev'.id].uploaded
                  /\ \A k \in 1..(Len(calls) - 1) :
                         calls[k] \in DOMAIN objs' => objs'[calls[k]].uploaded
                  /\ idx > 0 => \A k \in (idx + 1)..Len(files') :
                                    \A m \in 1..Len(calls) : calls[m] # files'[k]
    ]_vars

\* a run uploaded one entry, failed on the next, and an entry follows it
C4_Witness ==
    /\ ev.op = "startUpload.catch"
    /\ Len(ev.calls) >= 2
    /\ findIndex(files, ev.id) > 0
    /\ findIndex(files, ev.id) < Len(files)
    /\ ~objs[files[Len(files)]].uploaded

\* C5: the upload function is never invoked for an entry already marked
\* uploaded; a run starts with the first entry in tracked order that is not
\* marked uploaded; a mark, once set, is never cleared.
C5_UploadedNeverReuploaded ==
    [][/\ \A k \in 1..Len(log') :
              log'[k].hook = "onUpload"
                  => /\ log'[k].id \in DOMAIN objs
                     /\ ~objs[log'[k].id].uploaded
       /\ ev'.op = "startUpload" /\ runs' # runs
           => LET idx == findIndex(files, ev'.id)
              IN  /\ idx > 0
                  /\ \A m \in 1..(idx - 1) : objs[files[m]].uploaded
       /\ \A id \in DOMAIN objs \cap DOMAIN objs' :
              objs[id].uploaded => objs'[id].uploaded
    ]_vars

\* a run was started with an uploaded entry at the head of the list: it
\* began with the entry after it
C5_Witness ==
    /\ ev.op = "startUpload"
    /\ Made(log, "onUpload")
    /\ findIndex(files, ev.id) > 1
    /\ objs[files[1]].uploaded

\* C6: whenever the upload-complete hook fires, every entry tracked at that
\* moment is marked uploaded and the hook receives the raw handles of all
\* tracked entries in tracked order, for every interleaving of addFiles,
\* removeFile and clear with the running loop.
C6_CompleteMeansAllUploaded ==
    \A c \in 1..Len(log) :
        log[c].hook = "onUploadComplete"
            => /\ log[c].files = getFiles
               /\ \A k \in 1..Len(files) : objs[files[k]].uploaded

\* C7: a run that ends without a failure of the upload function has invoked
\* it for every tracked entry that is not marked uploaded: no addFiles,
\* removeFile or clear interleaved with the run makes it stop early or skip
\* a tracked entry.
C7_RunEndsOnlyOnFailure ==
    ev.end = "ok"
        => \A k \in 1..Len(files) :
               ~objs[files[k]].uploaded
                   => \E m \in 1..Len(ev.calls) : ev.calls[m] = files[k]

\* C8: every upload run returns to idle: if every invoked upload function
\* settles, the uploading flag is false again after every startUpload that
\* set it, whether the run succeeded, an upload failed or a hook raised,
\* and no activation of the loop is left behind in the idle state.
C8_RunReturnsToIdle ==
    /\ uploading ~> ~uploading
    /\ [](~uploading => runs = <<>>)

\* a run has ended in idle after a failed upload whose error hook raised
C8_Witness ==
    /\ ev.op = "startUpload.catch"
    /\ log[1].raises
    /\ ~uploading
    /\ runs = <<>>

\* C9: with t entries tracked and v files of the batch passing validation,
\* if t + v <= maxFiles all v are accepted and no capacity error is
\* reported; otherwise exactly one capacity error is reported and exactly
\* the first maxFiles - t validated files, in batch order, are accepted.
\* Rejected files do not count toward the capacity test.
C9_CapacityTruncatesTail ==
    [][ev'.op = "addFiles" =>
        LET t        == Len(files)
            valid    == SelectSeq(ev'.batch, LAMBDA f : ~Rejectable(f))
            capacity == ErrorsOf(log', {"capacity"})
            appended == HandlesFrom(files', objs', t + 1)
        IN  IF t + Len(valid) <= maxFiles
            THEN appended = valid /\ capacity = <<>>
            ELSE appended = SubSeq(valid, 1, maxFiles - t) /\ Len(capacity) = 1
    ]_vars

\* two valid files arrived with room for one: the first was kept
C9_Witness ==
    /\ ev.op = "addFiles"
    /\ ev.batch = <<HandleA, HandleB>>
    /\ Len(ErrorsOf(log, {"capacity"})) = 1
    /\ Len(files) = maxFiles
    /\ objs[files[Len(files)]].file = HandleA
    /\ CallsOf(log, "onFilesAdded")[1].files = <<HandleA>>

\* C10: the files accepted from a batch are appended to the end of the
\* tracked list in arrival order and no step changes the relative order of
\* the entries already tracked, so getFiles() returns the raw handles in
\* insertion order.
C10_InsertionOrderKept ==
    [][/\ \A a, b \in 1..Len(files) : \A c, d \in 1..Len(files') :
              (a < b /\ files'[c] = files[a] /\ files'[d] = files[b]) => c < d
       /\ \A c, d \in 1..Len(files') : c < d => files'[c] < files'[d]
       /\ ev'.op = "addFiles"
           => LET appended == HandlesFrom(files', objs', Len(files) + 1)
              IN  /\ SubSeq(files', 1, Len(files)) = files
                  /\ getFilesOf(files', objs') = getFiles \o appended
                  /\ \A k \in 1..Len(files) : objs'[files[k]] = objs[files[k]]
                  /\ IsSubseq(appended, ev'.batch)
                  /\ \A k \in (Len(files) + 1)..Len(files') :
                         \A m \in 1..Len(files) : files[m] < files'[k]
    ]_vars

\* a batch of two was appended behind an entry that survived a removal
C10_Witness ==
    /\ ev.op = "addFiles"
    /\ Len(files) = 2
    /\ files[1] + 1 < files[2]
    /\ getFiles = <<HandleB, HandleA>>

\* C11: an addFiles call fires the files-added hook exactly once if it
\* accepted at least one file and not at all otherwise, and the hook's
\* argument is exactly the raw handles the call appended to the tracked
\* list, in the same order.
C11_FilesAddedOncePerBatch ==
    [][ev'.op = "addFiles" =>
        LET appended == HandlesFrom(files', objs', Len(files) + 1)
            added    == CallsOf(log', "onFilesAdded")
        IN  IF appended = <<>>
            THEN added = <<>>
            ELSE Len(added) = 1 /\ added[1].files = appended
    ]_vars

\* a batch of a rejected file and an accepted one: the hook got the accepted one
C11_Witness ==
    /\ ev.op = "addFiles"
    /\ Len(ev.batch) = 2
    /\ Rejectable(ev.batch[1])
    /\ Len(CallsOf(log, "onFilesAdded")) = 1
    /\ CallsOf(log, "onFilesAdded")[1].files = <<HandleB>>
    /\ objs[files[Len(files)]].file = HandleB

\* C12: removeFile(id) for a tracked id removes exactly that entry (the
\* count drops by one, the other entries keep their order, uploaded flag and
\* progress) and fires the file-removed hook exactly once with the removed
\* entry's raw handle; for an id that is not tracked nothing changes and no
\* hook fires.
C12_RemoveExactlyOne ==
    [][ev'.op = "removeFile" =>
        IF \E k \in 1..Len(files) : files[k] = ev'.id
        THEN /\ Len(files') = Len(files) - 1
             /\ files' = SelectSeq(files, LAMBDA id : id # ev'.id)
             /\ \A k \in 1..Len(files') : objs'[files'[k]] = objs[files'[k]]
             /\ Len(log') = 1
             /\ log'[1].hook = "onFileRemoved"
             /\ log'[1].files = <<objs[ev'.id].file>>
        ELSE /\ files' = files
             /\ \A k \in 1..Len(files) : objs'[files[k]] = objs[files[k]]
             /\ uploading' = uploading
             /\ runs' = runs
             /\ log' = <<>>
    ]_vars

\* the first of two entries was removed; the one left is an uploaded one
\* whose upload had reported progress
C12_Witness ==
    /\ ev.op = "removeFile"
    /\ Made(log, "onFileRemoved")
    /\ Len(files) = 1
    /\ files[1] > ev.id
    /\ objs[files[1]].uploaded
    /\ objs[files[1]].progress # 0

\* C13: right after clear() the tracked list is empty whatever the state
\* was (also in the middle of an upload run), getFiles() and
\* getUploadedFiles() return the empty list, and no file-removed hook was
\* fired for the discarded entries.
C13_ClearEmptiesAlways ==
    ev.op = "clear" =>
        /\ files = <<>>
        /\ getFiles = <<>>
        /\ getUploadedFiles = <<>>
        /\ ~Made(log, "onFileRemoved")

\* clear() was called while an upload was in flight: its entry is discarded
C13_Witness ==
    /\ ev.op = "clear"
    /\ uploading
    /\ Awaiting # {}
    /\ files = <<>>
    /\ \A r \in Awaiting : runs[r].cur \in DOMAIN objs

\* C14: a startUpload call made when no upload function is configured, or
\* while a run is in progress, changes nothing (tracked list, entries'
\* uploaded flag and progress, uploading flag, suspended runs) and invokes
\* no hook.
C14_BlockedStartIsNoOp ==
    [][ev'.op = "startUpload" /\ (~hasOnUpload \/ uploading) =>
        /\ files' = files
        /\ objs' = objs
        /\ uploading' = uploading
        /\ runs' = runs
        /\ log' = <<>>
    ]_vars

\* startUpload was called with entries tracked and no upload function
C14_Witness ==
    /\ ev.op = "startUpload"
    /\ ev.end = "blocked"
    /\ ~hasOnUpload
    /\ ~uploading
    /\ Len(files) = maxFiles

\* C15: within one startUpload run the upload function is invoked in tracked
\* (insertion) order and never twice for one entry: of two invocations of
\* the same run the earlier one is for the entry inserted first, and while
\* both entries are tracked the earlier one stands before the later one.
C15_RunInvokesInOrder ==
    \A r \in 1..Len(runs) :
        \A a, b \in 1..Len(runs[r].calls) :
            a < b =>
                LET x == runs[r].calls[a]
                    y == runs[r].calls[b]
                IN  /\ x < y
                    /\ (findIndex(files, x) > 0 /\ findIndex(files, y) > 0
                            => findIndex(files, x) < findIndex(files, y))

\* a run is on its second invocation, both entries still tracked
C15_Witness ==
    \E r \in Awaiting :
        /\ Len(runs[r].calls) = 2
        /\ findIndex(files, runs[r].calls[1]) = 1
        /\ findIndex(files, runs[r].calls[2]) = 2

\* C16: every value passed to an entry's progress callback is stored as that
\* entry's progress and forwarded to the upload-progress hook with the
\* entry's raw handle, and the progress of every tracked entry is a
\* percentage between 0 and 100 in every reachable state.
C16_ProgressIsPercentage ==
    /\ ev.op = "progressCallback" =>
            /\ Len(log) = 1
            /\ log[1].hook = "onUploadProgress"
            /\ log[1].files = <<objs[ev.id].file>>
            /\ objs[ev.id].progress = log[1].percent
    /\ \A k \in 1..Len(files) : objs[files[k]].progress \in 0..100

\* C17: a startUpload run in which a call of the upload function fails makes
\* exactly one error report, for that failure, and a run in which every call
\* of the upload function succeeds makes no error report.
C17_OneReportPerFailedRun ==
    /\ ev.end = "failed" =>
            /\ Len(CallsOf(log, "showError")) = 1
            /\ Len(ErrorsOf(log, {"upload"})) = 1
    /\ ev.end = "ok" => ~Made(log, "showError")
    /\ ev.op \in {"startUpload", "startUpload.resume", "uploadFile.resolved",
                   "uploadFile.rejected"} /\ ev.end = "no"
            => ~Made(log, "showError")

\* C18: every tracked entry has exactly one upload status among pending,
\* uploaded and errored: an entry whose upload has just failed is errored and
\* not uploaded, and an uploaded entry is not errored, whatever happened to
\* it in earlier runs.
C18_OneStatusPerEntry ==
    /\ ev.op = "uploadFile.rejected" =>
            /\ "error" \in objs[ev.id].classes
            /\ ~objs[ev.id].uploaded
    /\ \A k \in 1..Len(files) :
            ~(objs[files[k]].uploaded /\ "error" \in objs[files[k]].classes)

\* C19: when a run ends without a failure and no entry was removed or
\* cleared while it was in progress, every tracked entry that addFiles
\* accepted during the run has been passed to the upload function by that
\* same run and is uploaded.
C19_LateFilesJoinRun ==
    [][\A r \in 1..Len(runs) :
          (/\ runs[r].pc = "resolved"
           /\ runs[r].disturbed = {}
           /\ runs' = RemoveAt(runs, r)
           /\ ev'.op = "startUpload.resume"
           /\ ev'.end = "ok")
          => \A k \in 1..Len(files') :
                 files'[k] >= runs[r].first =>
                     /\ \E c \in 1..Len(ev'.calls) : ev'.calls[c] = files'[k]
                     /\ objs'[files'[k]].uploaded
    ]_vars

\* an entry accepted while the run was in progress has been uploaded by it
C19_Witness ==
    \E r \in 1..Len(runs) :
        /\ runs[r].pc = "resolved"
        /\ runs[r].disturbed = {}
        /\ runs[r].cur >= runs[r].first
        /\ Len(runs[r].calls) = 2
        /\ findIndex(files, runs[r].cur) = 2
        /\ objs[runs[r].cur].uploaded

\* C20: clear() during a run discards every tracked entry, the one in flight
\* included; an entry that is no longer tracked is never tracked again and
\* never passed to the upload function, the upload-complete argument holds
\* the handles of tracked entries only, and the in-flight upload of a
\* discarded entry still marks that entry uploaded without bringing it back.
C20_ClearedEntriesStayOut ==
    [][/\ ev'.op = "clear" =>
              \A r \in 1..Len(runs) :
                  \A k \in 1..Len(files') : files'[k] # runs[r].cur
       /\ \A id \in 1..(nextId - 1) :
              findIndex(files, id) = 0 =>
                  /\ findIndex(files', id) = 0
                  /\ \A c \in 1..Len(log') :
                         log'[c].hook = "onUpload" => log'[c].id # id
       /\ \A c \in 1..Len(log') :
              log'[c].hook = "onUploadComplete" =>
                  log'[c].files = getFilesOf(files', objs')
       /\ ev'.op = "uploadFile.resolved" =>
              /\ objs'[ev'.id].uploaded
              /\ files' = files
    ]_vars

\* clear() was called during the run; the upload of the discarded entry has
\* resolved and marked it, and it is not among the entries tracked since
C20_Witness ==
    \E r \in 1..Len(runs) :
        /\ "clear" \in runs[r].disturbed
        /\ runs[r].pc = "resolved"
        /\ findIndex(files, runs[r].cur) = 0
        /\ objs[runs[r].cur].uploaded
        /\ Len(files) > 0
        /\ getUploadedFiles = <<>>

\* C21: destroy() leaves the tracked list, every entry's uploaded flag and
\* progress and the uploading flag unchanged and does not stop a run in
\* progress: after it the loop still passes the next entry that is not
\* uploaded to the upload function, or fires the upload-complete hook with
\* the tracked handles when none is left, and the progress callback still
\* stores and forwards what it is given.
C21_DestroyKeepsStateAndRun ==
    [][/\ ev'.op = "destroy" =>
              /\ files' = files
              /\ objs' = objs
              /\ uploading' = uploading
              /\ runs' = runs
              /\ log' = <<>>
       /\ destroyed =>
              \A r \in 1..Len(runs) :
                  (runs[r].pc = "resolved" /\ ev'.op = "startUpload.resume"
                      /\ runs' # runs) =>
                      LET pending == { k \in (runs[r].i + 2)..Len(files) :
                                           ~objs[files[k]].uploaded }
                      IN  IF pending # {}
                          THEN /\ Len(log') = 1
                               /\ log'[1].hook = "onUpload"
                               /\ \E k \in pending :
                                      /\ \A m \in pending : k <= m
                                      /\ log'[1].id = files[k]
                                      /\ log'[1].files = <<objs[files[k]].file>>
                          ELSE /\ Len(CallsOf(log', "onUploadComplete")) = 1
                               /\ CallsOf(log', "onUploadComplete")[1].files = getFiles
                               /\ ~uploading'
       /\ destroyed /\ ev'.op = "progressCallback" =>
              /\ Len(log') = 1
              /\ log'[1].hook = "onUploadProgress"
              /\ log'[1].files = <<objs'[ev'.id].file>>
              /\ objs'[ev'.id].progress = log'[1].percent
    ]_vars

\* after destroy() a run in progress has passed its second entry to the
\* upload function, whose preview element was no longer there
C21_Witness ==
    /\ destroyed
    /\ ev.op = "startUpload.resume"
    /\ uploading
    /\ \E r \in Awaiting :
           /\ ~runs[r].preview
           /\ Len(runs[r].calls) = 2
           /\ findIndex(files, runs[r].cur) = 2

\* C22: a startUpload call made while idle, with an upload function
\* configured and no tracked entry left to upload (none tracked, or all
\* uploaded), invokes the upload function zero times and fires the
\* upload-complete hook exactly once with all tracked handles; it leaves the
\* list, the entries and the idle flag as they were, so the next such call
\* fires the hook again.
C22_NothingPendingStillCompletes ==
    [][(/\ ev'.op = "startUpload"
        /\ hasOnUpload
        /\ ~uploading
        /\ \A k \in 1..Len(files) : objs[files[k]].uploaded)
       => /\ ~Made(log', "onUpload")
          /\ Len(CallsOf(log', "onUploadComplete")) = 1
          /\ CallsOf(log', "onUploadComplete")[1].files = getFiles
          /\ files' = files
          /\ objs' = objs
          /\ ~uploading'
          /\ runs' = runs
    ]_vars

\* startUpload was called with every tracked entry uploaded already
C22_Witness ==
    /\ ev.op = "startUpload"
    /\ ev.end = "ok"
    /\ ev.calls = <<>>
    /\ Len(files) = maxFiles
    /\ \A k \in 1..Len(files) : objs[files[k]].uploaded
    /\ Len(CallsOf(log, "onUploadComplete")) = 1
    /\ Len(CallsOf(log, "onUploadComplete")[1].files) = maxFiles

====
